---- MODULE Spec2Model ----
(***************************************************************************)
(* Session manager and fetch pipeline of easee_status (src/v1/easee.rs).   *)
(*                                                                         *)
(* Every task runs get_charger_state on the one shared                     *)
(* Arc<Mutex<SessionState>>.  A step of the model is the code between two  *)
(* await points of one task; the session mutex is a variable, so a step    *)
(* that locks is enabled only while the mutex is free, and a guard that    *)
(* the code keeps across an await stays held between steps.                *)
(*                                                                         *)
(* Time is in model units.  Tokens are numbered in the order the upstream  *)
(* issues them: access token n is 2n, refresh token n is 2n+1.             *)
(***************************************************************************)
EXTENDS Integers, Sequences, FiniteSets, TLC

\* ---- bounds of the model ----
NumTasks == 2
MaxCalls == 1
MaxNow == 1
MaxIds == 2
MaxIssued == 2

Tasks == 1..NumTasks
ChargerIds == 1..MaxIds

\* ---- Option<T> ----
None == <<>>
Some(x) == <<x>>
IsSome(o) == o # None
Unwrap(o) == o[1]

\* ---- chrono ----
\* The largest DateTime and the largest Duration, scaled: every time the model's
\* clock reaches plus every ordinary expiresIn lies below MAX_DATETIME, and
\* MAX_DATETIME lies below MAX_DURATION, as in chrono.
MAX_DATETIME == MaxNow + 4
MAX_DURATION == 2 * MAX_DATETIME

\* Duration::seconds(d) panics when d is out of the Duration range.
DurationSecondsPanics(d) == d > MAX_DURATION \/ d < -MAX_DURATION

\* DateTime::checked_add_signed: None when the sum is not a DateTime.
checked_add_signed(t, d) ==
    IF t + d > MAX_DATETIME \/ t + d < -MAX_DATETIME THEN None ELSE Some(t + d)

\* ---- serde_json values ----
Null == [t |-> "null", v |-> 0]
Str(x) == [t |-> "str", v |-> x]
Num(x) == [t |-> "num", v |-> x]
as_str(j) == IF j.t = "str" THEN Some(j.v) ELSE None
as_i64(j) == IF j.t = "num" THEN Some(j.v) ELSE None
as_f64(j) == IF j.t = "num" THEN Some(j.v) ELSE None

\* ---- EaseeError and Result ----
EaseeErrors == {"Unathorized", "LoginFailed", "HttpFailed", "InvalidResponse", "RateLimit"}
NoResult == [kind |-> "None", err |-> "", val |-> <<>>]
Ok(v) == [kind |-> "Ok", err |-> "", val |-> v]
Err(e) == [kind |-> "Err", err |-> e, val |-> <<>>]
Panicked == [kind |-> "Panic", err |-> "", val |-> <<>>]

\* ---- HTTP ----
TOO_MANY_REQUESTS == 429
HttpStatuses == {200, 401, TOO_MANY_REQUESTS}
is_success(s) == s >= 200 /\ s < 300

\* ---- upstream bodies ----
\* expiresIn values the upstream may send: already expired, one unit, one that
\* overflows the DateTime, one that Duration::seconds rejects.
ExpiresIns == {0, 1, MAX_DATETIME + 1, MAX_DURATION + 1}

AccessTok(n) == 2 * n
RefreshTok(n) == 2 * n + 1

\* A 2xx body of the login or refresh endpoint when the upstream issues token n:
\* unreadable, not JSON, or JSON whose three fields are each absent, of the wrong
\* type or as documented.
AuthBodies(n) ==
    {[kind |-> k, accessToken |-> Null, refreshToken |-> Null, expiresIn |-> Null] :
        k \in {"unreadable", "text"}}
    \cup
    {[kind |-> "json", accessToken |-> a, refreshToken |-> r, expiresIn |-> e] :
        a \in {Null, Num(0), Str(AccessTok(n))},
        r \in {Null, Str(RefreshTok(n))},
        e \in {Null, Str(0)} \cup {Num(d) : d \in ExpiresIns}}

\* login 204-227 and refresh_token 292-310: text(), from_str, the three fields.
ParseAuth(body) ==
    IF body.kind = "unreadable" THEN Err("HttpFailed")
    ELSE IF body.kind # "json" THEN Err("InvalidResponse")
    ELSE IF as_str(body.accessToken) = None THEN Err("InvalidResponse")
    ELSE IF as_str(body.refreshToken) = None THEN Err("InvalidResponse")
    ELSE IF as_i64(body.expiresIn) = None THEN Err("InvalidResponse")
    ELSE Ok([token |-> Unwrap(as_str(body.accessToken)),
             refresh_token |-> Unwrap(as_str(body.refreshToken)),
             duration |-> Unwrap(as_i64(body.expiresIn))])

\* The fleets the upstream lists: no charger, one, ... up to MaxIds, the ids in an
\* order that is not the sorted one.
Fleet(n) == [i \in 1..n |-> n + 1 - i]
IdLists == {Fleet(n) : n \in 0..MaxIds}

\* A 2xx body of the chargers endpoint: unreadable, not JSON, JSON that is no
\* array, or an array of objects whose id is a string, a number or absent.
ListBodies ==
    {[kind |-> k, items |-> <<>>] : k \in {"unreadable", "text", "object"}}
    \cup {[kind |-> "array", items |-> [i \in DOMAIN q |-> [id |-> Str(q[i])]]] : q \in IdLists}
    \cup {[kind |-> "array", items |-> <<[id |-> Str(1)], [id |-> bad]>>] : bad \in {Null, Num(2)}}

\* get_charger_list 58-74.  json.as_array().unwrap() panics on a non-array.
ParseList(body) ==
    IF body.kind = "unreadable" THEN Err("HttpFailed")
    ELSE IF body.kind = "text" THEN Err("InvalidResponse")
    ELSE IF body.kind # "array" THEN Panicked
    ELSE IF \E i \in DOMAIN body.items : as_str(body.items[i].id) = None
         THEN Err("InvalidResponse")
    ELSE Ok([i \in DOMAIN body.items |-> Unwrap(as_str(body.items[i].id))])

\* A 2xx body of the state endpoint when the charger's reading is n.
StateBodies(n) ==
    {[kind |-> k, totalPower |-> Null, sessionEnergy |-> Null, energyPerHour |-> Null] :
        k \in {"unreadable", "text"}}
    \cup
    {[kind |-> "json", totalPower |-> Num(r), sessionEnergy |-> Num(r + 10),
      energyPerHour |-> Num(r + 20)] : r \in {n}}
    \cup
    {[kind |-> "json", totalPower |-> a, sessionEnergy |-> b, energyPerHour |-> c] :
        a \in {Null, Num(n)}, b \in {Str(0), Num(n + 10)}, c \in {Null, Num(n + 20)}}

\* external_request_charger_state 115-136.
ParseState(charger_id, body) ==
    IF body.kind = "unreadable" THEN Err("HttpFailed")
    ELSE IF body.kind # "json" THEN Err("InvalidResponse")
    ELSE IF as_f64(body.totalPower) = None THEN Err("InvalidResponse")
    ELSE IF as_f64(body.sessionEnergy) = None THEN Err("InvalidResponse")
    ELSE IF as_f64(body.energyPerHour) = None THEN Err("InvalidResponse")
    ELSE Ok([id |-> charger_id,
             power |-> Unwrap(as_f64(body.totalPower)),
             session |-> Unwrap(as_f64(body.sessionEnergy)),
             energy_per_hour |-> Unwrap(as_f64(body.energyPerHour))])

\* What send().await gives: a transport failure, or a status and a body.
NoBody == [kind |-> "none"]
Responses(bodies) ==
    {[transport |-> FALSE, status |-> 200, body |-> b] : b \in bodies}
    \cup {[transport |-> FALSE, status |-> s, body |-> NoBody] : s \in HttpStatuses \ {200}}
    \cup {[transport |-> TRUE, status |-> 0, body |-> NoBody]}

\* The bodies that text().await can give after a 2xx status of one of responses.
BodiesOf(responses) ==
    {r.body : r \in {q \in responses : ~q.transport /\ is_success(q.status)}}

\* ---- the shape of a body, for the history of a call ----
\* Told from the body itself: unreadable (text() fails), not JSON, JSON of another
\* container type, a field absent or of the wrong type, or as documented.
AuthShape(body) ==
    IF body.kind \in {"unreadable", "none"} THEN body.kind
    ELSE IF body.kind = "text" THEN "not_json"
    ELSE IF body.accessToken.t # "str" \/ body.refreshToken.t # "str"
            \/ body.expiresIn.t # "num" THEN "bad_field"
    ELSE "documented"

ListShape(body) ==
    IF body.kind \in {"unreadable", "none"} THEN body.kind
    ELSE IF body.kind = "text" THEN "not_json"
    ELSE IF body.kind = "object" THEN "not_container"
    ELSE IF \E i \in DOMAIN body.items : body.items[i].id.t # "str" THEN "bad_field"
    ELSE "documented"

StateShape(body) ==
    IF body.kind \in {"unreadable", "none"} THEN body.kind
    ELSE IF body.kind = "text" THEN "not_json"
    ELSE IF body.totalPower.t # "num" \/ body.sessionEnergy.t # "num"
            \/ body.energyPerHour.t # "num" THEN "bad_field"
    ELSE "documented"

\* The record kept of a response: the request it answers, the status (0 when
\* send() failed) and the shape of the body.
NoReply == [stage |-> "none", status |-> 0, shape |-> "none"]
Reply(stage, r, shape) ==
    [stage |-> stage, status |-> IF r.transport THEN 0 ELSE r.status, shape |-> shape]

\* ---- state ----
VARIABLES
    session,        \* SessionState: token, refresh_token, lifetime (Options)
    session_lock,   \* the task holding the session mutex, 0 when free
    now,            \* Local::now()
    issued,         \* tokens the upstream has issued so far
    pc,             \* each task's position in get_charger_state
    ctx,            \* the caller of the running refresh_auth: "list" or "state"
    calls,          \* get_charger_state calls each task has started
    auth,           \* login / refresh_token locals: token, refresh_token, duration
    auth_res,       \* what refresh_auth returns
    ids,            \* get_charger_state: ids
    idx,            \* get_charger_state: position of the loop in ids
    states,         \* get_charger_state: states
    result,         \* what the task's last get_charger_state returned
    events,         \* history: what the running refresh_auth call has done
    branch,         \* history: the session state the running refresh_auth found
    saved,          \* history: the session when login / refresh_token locked it to write
    authed,         \* history: refresh_auth returned Ok and no request was sent since
    sent_ids,       \* history: ids a state request was sent for, in this call
    fail,           \* history: <<k, e, n>> when the k-th of n state requests failed with e
    refresh_rejected, \* history: the last refresh got a non-2xx and no write followed
    reply,          \* history: the last upstream response the task's call got
    cache,          \* routes.rs Cache: last_update and state (Options)
    cache_lock,     \* the task holding each of the two cache mutexes, 0 when free
    hpc,            \* each task's position in the handler it runs, "none" outside
    route,          \* the handler the task runs or ran last: index or field_index
    response,       \* the response the query surface gave last, and the task that gave it
    handled,        \* requests the query surface has taken so far
    req,            \* the field and the index of the request each task handles
    rid,            \* history: the number of the request each task handles
    written,        \* history: the request that wrote last_update, and state
    raced,          \* history: the handlers that were running when this one began
    fetched         \* history: the handler of the task has called get_charger_state

vars == <<session, session_lock, now, issued, pc, ctx, calls, auth, auth_res, ids, idx,
          states, result, events, branch, saved, authed, sent_ids, fail, refresh_rejected,
          reply, cache, cache_lock, hpc, route, response, handled, req, rid, written,
          raced, fetched>>

frame == <<pc, ctx, ids, idx, states, result>>
history == <<events, branch, saved, authed, sent_ids, fail, refresh_rejected, reply>>
cachevars == <<cache, cache_lock, hpc, route, response, handled, req, rid, written, raced,
               fetched>>

NoAuth == [token |-> 0, refresh_token |-> 0, duration |-> 0]

\* SessionState::new
SessionState_new == [token |-> None, refresh_token |-> None, lifetime |-> None]

\* Cache::new
Cache_new == [last_update |-> None, state |-> None]

\* No response given yet; a response is a status and a body.
NoResponse == [by |-> 0, status |-> 0, body |-> [kind |-> "none", val |-> <<>>]]
Custom(status, body) == [by |-> 0, status |-> status, body |-> body]

\* The field and the index of a request, before the handler uses them.
NoReq == [field |-> "none", index |-> 0]

\* Nothing is running: no lock is held, no call and no handler has begun.
AtRest ==
    /\ session_lock = 0
    /\ now = 0
    /\ pc = [t \in Tasks |-> "idle"]
    /\ ctx = [t \in Tasks |-> "list"]
    /\ calls = [t \in Tasks |-> 0]
    /\ auth = [t \in Tasks |-> NoAuth]
    /\ auth_res = [t \in Tasks |-> NoResult]
    /\ ids = [t \in Tasks |-> <<>>]
    /\ idx = [t \in Tasks |-> 0]
    /\ states = [t \in Tasks |-> <<>>]
    /\ result = [t \in Tasks |-> NoResult]
    /\ events = [t \in Tasks |-> {}]
    /\ branch = [t \in Tasks |-> "none"]
    /\ saved = [t \in Tasks |-> None]
    /\ authed = [t \in Tasks |-> FALSE]
    /\ sent_ids = [t \in Tasks |-> <<>>]
    /\ fail = [t \in Tasks |-> <<>>]
    /\ refresh_rejected = FALSE
    /\ reply = [t \in Tasks |-> NoReply]
    /\ cache_lock = [last_update |-> 0, state |-> 0]
    /\ hpc = [t \in Tasks |-> "none"]
    /\ route = [t \in Tasks |-> "none"]
    /\ response = NoResponse
    /\ handled = 0
    /\ req = [t \in Tasks |-> NoReq]
    /\ rid = [t \in Tasks |-> 0]
    /\ written = [last_update |-> 0, state |-> 0]
    /\ raced = [t \in Tasks |-> {}]
    /\ fetched = [t \in Tasks |-> FALSE]

Init ==
    /\ session = SessionState_new
    /\ issued = 0
    /\ cache = Cache_new
    /\ AtRest

\* ---- the session mutex (tokio::sync::Mutex) ----
Free == session_lock = 0

\* ---- control of one task ----
\* Go on at position p of the running get_charger_state.
Goto(t, p) ==
    /\ pc' = [pc EXCEPT ![t] = p]
    /\ UNCHANGED <<ctx, ids, idx, states, result>>

\* get_charger_state returns res (or unwinds): its locals are dropped.
Return(t, res) ==
    /\ pc' = [pc EXCEPT ![t] = "idle"]
    /\ result' = [result EXCEPT ![t] = res]
    /\ ctx' = [ctx EXCEPT ![t] = "list"]
    /\ ids' = [ids EXCEPT ![t] = <<>>]
    /\ idx' = [idx EXCEPT ![t] = 0]
    /\ states' = [states EXCEPT ![t] = <<>>]

\* ---- get_charger_state: entry ----
\* The call itself: the locals and the history of the call start afresh.
Start(t) ==
    /\ pc[t] = "idle"
    /\ calls' = [calls EXCEPT ![t] = @ + 1]
    /\ pc' = [pc EXCEPT ![t] = "ra_check"]
    /\ result' = [result EXCEPT ![t] = NoResult]
    /\ sent_ids' = [sent_ids EXCEPT ![t] = <<>>]
    /\ fail' = [fail EXCEPT ![t] = <<>>]
    /\ reply' = [reply EXCEPT ![t] = NoReply]
    /\ UNCHANGED <<session, session_lock, now, issued, ctx, ids, idx, states, auth,
                   auth_res, events, branch, saved, authed, refresh_rejected>>

\* A call of the poll driver (run.rs tick), MaxCalls of them for each task.
Call(t) == calls[t] < MaxCalls /\ Start(t)

\* ---- refresh_auth ----
\* Mutant of TokenValid: the token counts as expired one unit early.
TokenValidEarly(s, n) ==
    IsSome(s.token) /\ IsSome(s.lifetime) /\ Unwrap(s.lifetime) > n + 1

\* The condition of lines 333 and 335: the token is held and its lifetime is ahead.
TokenValid(s, n) == IsSome(s.token) /\ IsSome(s.lifetime) /\ Unwrap(s.lifetime) > n

\* Mutant of RefreshAuthTarget: an expired token sends refresh_auth to login.
RefreshAuthTargetLoginOnExpiry(s, n) ==
    IF IsSome(s.token) /\ IsSome(s.lifetime) /\ TokenValid(s, n) THEN "ra_ret" ELSE "login"

\* Where refresh_auth goes after its check.
RefreshAuthTarget(s, n) ==
    IF IsSome(s.token) /\ IsSome(s.lifetime)
    THEN (IF TokenValid(s, n) THEN "ra_ret" ELSE "rt_has_refresh")
    ELSE "login"

\* History only: the session state as the specification names it.
BranchOf(s, n) ==
    IF s.token = None THEN "no_token"
    ELSE IF s.lifetime = None THEN "no_lifetime"
    ELSE IF n < Unwrap(s.lifetime) THEN "valid"
    ELSE IF s.refresh_token = None THEN "expired_no_refresh"
    ELSE "expired"

\* Lock, look at token and lifetime, and either return Ok with the guard dropped at
\* the end of the function, or drop the guard and go on to refresh_token or login.
RefreshAuth(t) ==
    /\ pc[t] = "ra_check"
    /\ Free
    /\ Goto(t, RefreshAuthTarget(session, now))
    /\ auth_res' = [auth_res EXCEPT ![t] =
            IF RefreshAuthTarget(session, now) = "ra_ret" THEN Ok(<<>>) ELSE NoResult]
    /\ branch' = [branch EXCEPT ![t] = BranchOf(session, now)]
    /\ events' = [events EXCEPT ![t] =
            IF refresh_rejected /\ BranchOf(session, now) = "expired"
            THEN {"after_rejected"} ELSE {}]
    /\ authed' = [authed EXCEPT ![t] = FALSE]
    /\ UNCHANGED <<session, session_lock, now, issued, calls, auth, saved, sent_ids, fail,
                   refresh_rejected, reply>>
    /\ UNCHANGED cachevars

\* The `?` after refresh_auth in get_charger_list and external_request_charger_state,
\* and get_charger_state returning the error it is handed.
RefreshAuthReturn(t) ==
    /\ pc[t] = "ra_ret"
    /\ IF auth_res[t].kind = "Ok"
       THEN Goto(t, IF ctx[t] = "list" THEN "list_send" ELSE "state_send")
       ELSE Return(t, auth_res[t])
    /\ auth_res' = [auth_res EXCEPT ![t] = NoResult]
    /\ events' = [events EXCEPT ![t] = {}]
    /\ branch' = [branch EXCEPT ![t] = "none"]
    /\ saved' = [saved EXCEPT ![t] = None]
    /\ authed' = [authed EXCEPT ![t] = (auth_res[t].kind = "Ok")]
    /\ UNCHANGED <<session, session_lock, now, issued, calls, auth, sent_ids, fail,
                   refresh_rejected, reply>>
    /\ UNCHANGED cachevars

\* ---- the write of the session, the same lines in login and refresh_token ----
\* Mutant of WriteToken: the guard is dropped after the token is written, as with
\* one lock per field.
WriteTokenUnlocked(t, next) ==
    /\ Free
    /\ UNCHANGED session_lock
    /\ saved' = [saved EXCEPT ![t] = Some(session)]
    /\ session' = [session EXCEPT !.token = Some(auth[t].token)]
    /\ Goto(t, next)
    /\ UNCHANGED <<now, issued, calls, auth, auth_res, events, branch, authed, sent_ids,
                   fail, refresh_rejected, reply>>
    /\ UNCHANGED cachevars

\* Mutant of WriteToken: the lock is taken and the token is not written.
WriteTokenSkipped(t, next) ==
    /\ Free
    /\ session_lock' = t
    /\ saved' = [saved EXCEPT ![t] = Some(session)]
    /\ UNCHANGED session
    /\ Goto(t, next)
    /\ UNCHANGED <<now, issued, calls, auth, auth_res, events, branch, authed, sent_ids,
                   fail, refresh_rejected, reply>>
    /\ UNCHANGED cachevars

\* session.lock().await, then token = Some(..).  The guard stays held.
WriteToken(t, next) ==
    /\ Free
    /\ session_lock' = t
    /\ saved' = [saved EXCEPT ![t] = Some(session)]
    /\ session' = [session EXCEPT !.token = Some(auth[t].token)]
    /\ Goto(t, next)
    /\ UNCHANGED <<now, issued, calls, auth, auth_res, events, branch, authed, sent_ids,
                   fail, refresh_rejected, reply>>
    /\ UNCHANGED cachevars

WriteRefreshToken(t, next) ==
    /\ session' = [session EXCEPT !.refresh_token = Some(auth[t].refresh_token)]
    /\ Goto(t, next)
    /\ UNCHANGED <<session_lock, now, issued, calls, auth, auth_res, history>>
    /\ UNCHANGED cachevars

\* lifetime = Some(Local::now().checked_add_signed(Duration::seconds(duration)).ok_or(..)?):
\* Duration::seconds may panic, checked_add_signed may give None and `?` then
\* returns InvalidResponse; the guard is dropped on every way out.
WriteLifetime(t) ==
    /\ session_lock' = 0
    /\ IF DurationSecondsPanics(auth[t].duration)
       THEN /\ Return(t, Panicked)
            /\ UNCHANGED <<session, auth_res, refresh_rejected>>
       ELSE IF checked_add_signed(now, auth[t].duration) = None
       THEN /\ Goto(t, "ra_ret")
            /\ auth_res' = [auth_res EXCEPT ![t] = Err("InvalidResponse")]
            /\ UNCHANGED <<session, refresh_rejected>>
       ELSE /\ Goto(t, "ra_ret")
            /\ session' = [session EXCEPT
                    !.lifetime = checked_add_signed(now, auth[t].duration)]
            /\ auth_res' = [auth_res EXCEPT ![t] = Ok(<<>>)]
            /\ refresh_rejected' = FALSE
    /\ auth' = [auth EXCEPT ![t] = NoAuth]
    /\ UNCHANGED <<now, issued, calls, events, branch, saved, authed, sent_ids, fail, reply>>
    /\ UNCHANGED cachevars

\* What login and refresh_token do with the response of their endpoint, up to the
\* lock for the write: the error they return, or Ok with the parsed fields.
AuthOutcome(r) ==
    IF r.transport THEN Err("HttpFailed")
    ELSE IF ~is_success(r.status) THEN Err("LoginFailed")
    ELSE ParseAuth(r.body)

\* ---- login ----
CredentialSources == {"env", "file", "none"}

\* Credentials from the environment or the credentials file, then the request.
Login(t, c) ==
    /\ pc[t] = "login"
    /\ IF c = "none"
       THEN /\ Goto(t, "ra_ret")
            /\ auth_res' = [auth_res EXCEPT ![t] = Err("LoginFailed")]
            /\ events' = [events EXCEPT ![t] = @ \cup {"login"}]
       ELSE /\ Goto(t, "login_wait")
            /\ events' = [events EXCEPT ![t] = @ \cup {"login", "login_req"}]
            /\ UNCHANGED auth_res
    /\ UNCHANGED <<session, session_lock, now, issued, calls, auth, branch, saved, authed,
                   sent_ids, fail, refresh_rejected, reply>>
    /\ UNCHANGED cachevars

\* send().await of the login request: a transport failure or a non-2xx status ends
\* login with its error; after a 2xx the task waits for the body.
LoginResponse(t, r) ==
    /\ pc[t] = "login_wait"
    /\ IF ~r.transport /\ is_success(r.status)
       THEN /\ Goto(t, "login_text")
            /\ UNCHANGED auth_res
       ELSE /\ auth_res' = [auth_res EXCEPT ![t] = AuthOutcome(r)]
            /\ Goto(t, "ra_ret")
    /\ reply' = [reply EXCEPT ![t] = Reply("login", r, "none")]
    /\ UNCHANGED <<session, session_lock, now, issued, calls, auth, events, branch, saved,
                   authed, sent_ids, fail, refresh_rejected>>
    /\ UNCHANGED cachevars

\* response.text().await and the parse of the body, up to the lock for the write.
LoginText(t, body) ==
    /\ pc[t] = "login_text"
    /\ IF ParseAuth(body).kind = "Ok"
       THEN /\ issued < MaxIssued
            /\ issued' = issued + 1
            /\ auth' = [auth EXCEPT ![t] = ParseAuth(body).val]
            /\ Goto(t, "login_w_token")
            /\ UNCHANGED auth_res
       ELSE /\ auth_res' = [auth_res EXCEPT ![t] = ParseAuth(body)]
            /\ Goto(t, "ra_ret")
            /\ UNCHANGED <<issued, auth>>
    /\ reply' = [reply EXCEPT ![t].shape = AuthShape(body)]
    /\ UNCHANGED <<session, session_lock, now, calls, events, branch, saved, authed,
                   sent_ids, fail, refresh_rejected>>
    /\ UNCHANGED cachevars

LoginWriteToken(t) == pc[t] = "login_w_token" /\ WriteToken(t, "login_w_refresh")
LoginWriteRefreshToken(t) ==
    pc[t] = "login_w_refresh" /\ WriteRefreshToken(t, "login_w_lifetime")
LoginWriteLifetime(t) == pc[t] = "login_w_lifetime" /\ WriteLifetime(t)

\* ---- refresh_token ----
\* Mutant of RefreshTokenHasRefresh: the expired token is dropped from the session.
RefreshTokenHasRefreshClearing(t) ==
    /\ pc[t] = "rt_has_refresh"
    /\ Free
    /\ Goto(t, IF session.refresh_token = None THEN "login" ELSE "rt_has_token")
    /\ session' = [session EXCEPT !.token = None]
    /\ UNCHANGED <<session_lock, now, issued, calls, auth, auth_res, history>>
    /\ UNCHANGED cachevars

RefreshTokenHasRefresh(t) ==
    /\ pc[t] = "rt_has_refresh"
    /\ Free
    /\ Goto(t, IF session.refresh_token = None THEN "login" ELSE "rt_has_token")
    /\ UNCHANGED <<session, session_lock, now, issued, calls, auth, auth_res, history>>
    /\ UNCHANGED cachevars

RefreshTokenHasToken(t) ==
    /\ pc[t] = "rt_has_token"
    /\ Free
    /\ Goto(t, IF session.token = None THEN "login" ELSE "rt_send")
    /\ UNCHANGED <<session, session_lock, now, issued, calls, auth, auth_res, history>>
    /\ UNCHANGED cachevars

\* Lock, unwrap both tokens into the payload and send; the guard lives to line 290.
RefreshTokenSend(t) ==
    /\ pc[t] = "rt_send"
    /\ Free
    /\ IF session.refresh_token = None \/ session.token = None
       THEN /\ Return(t, Panicked)
            /\ UNCHANGED <<session_lock, events>>
       ELSE /\ Goto(t, "rt_wait")
            /\ session_lock' = t
            /\ events' = [events EXCEPT ![t] = @ \cup {"refresh_req"}]
    /\ UNCHANGED <<session, now, issued, calls, auth, auth_res, branch, saved, authed,
                   sent_ids, fail, refresh_rejected, reply>>
    /\ UNCHANGED cachevars

\* send().await of the refresh request; the guard of line 276 is dropped at 290
\* (or by the `?` of 289).  A transport failure or a non-2xx status ends
\* refresh_token with its error; after a 2xx the task waits for the body.
RefreshTokenResponse(t, r) ==
    /\ pc[t] = "rt_wait"
    /\ session_lock' = 0
    /\ IF ~r.transport /\ is_success(r.status)
       THEN /\ Goto(t, "rt_text")
            /\ UNCHANGED <<auth_res, events, refresh_rejected>>
       ELSE /\ auth_res' = [auth_res EXCEPT ![t] = AuthOutcome(r)]
            /\ Goto(t, "ra_ret")
            /\ events' = [events EXCEPT ![t] =
                    IF ~r.transport /\ ~is_success(r.status)
                    THEN @ \cup {"refresh_non2xx"} ELSE @]
            /\ refresh_rejected' = (refresh_rejected
                                     \/ (~r.transport /\ ~is_success(r.status)))
    /\ reply' = [reply EXCEPT ![t] = Reply("refresh", r, "none")]
    /\ UNCHANGED <<session, now, issued, calls, auth, branch, saved, authed, sent_ids, fail>>
    /\ UNCHANGED cachevars

\* response.text().await and the parse of the body, up to the lock for the write.
RefreshTokenText(t, body) ==
    /\ pc[t] = "rt_text"
    /\ IF ParseAuth(body).kind = "Ok"
       THEN /\ issued < MaxIssued
            /\ issued' = issued + 1
            /\ auth' = [auth EXCEPT ![t] = ParseAuth(body).val]
            /\ Goto(t, "rt_w_token")
            /\ UNCHANGED auth_res
       ELSE /\ auth_res' = [auth_res EXCEPT ![t] = ParseAuth(body)]
            /\ Goto(t, "ra_ret")
            /\ UNCHANGED <<issued, auth>>
    /\ reply' = [reply EXCEPT ![t].shape = AuthShape(body)]
    /\ UNCHANGED <<session, session_lock, now, calls, events, branch, saved, authed,
                   sent_ids, fail, refresh_rejected>>
    /\ UNCHANGED cachevars

RefreshTokenWriteToken(t) == pc[t] = "rt_w_token" /\ WriteToken(t, "rt_w_refresh")
RefreshTokenWriteRefreshToken(t) ==
    pc[t] = "rt_w_refresh" /\ WriteRefreshToken(t, "rt_w_lifetime")
RefreshTokenWriteLifetime(t) == pc[t] = "rt_w_lifetime" /\ WriteLifetime(t)

\* ---- get_charger_list ----
\* `if let Some(ref t) = session.lock().await.token`: the guard is a temporary of
\* the scrutinee and lives to the end of the if-let, across the request.
ListSend(t) ==
    /\ pc[t] = "list_send"
    /\ Free
    /\ IF session.token = None
       THEN /\ Return(t, Panicked)
            /\ UNCHANGED session_lock
       ELSE /\ Goto(t, "list_wait")
            /\ session_lock' = t
    /\ authed' = [authed EXCEPT ![t] = FALSE]
    /\ UNCHANGED <<session, now, issued, calls, auth, auth_res, events, branch, saved,
                   sent_ids, fail, refresh_rejected, reply>>
    /\ UNCHANGED cachevars

\* What get_charger_list returns for the response of the chargers endpoint.
ListOutcome(r) ==
    IF r.transport THEN Err("HttpFailed")
    ELSE IF is_success(r.status) THEN ParseList(r.body)
    ELSE IF r.status = TOO_MANY_REQUESTS THEN Err("Unathorized")
    ELSE Err("HttpFailed")

\* Mutant of TakeIds: an error of the list request sends the call to login.
TakeIdsLoginOnError(t, res) ==
    IF res.kind = "Ok" /\ res.val # <<>>
    THEN /\ pc' = [pc EXCEPT ![t] = "ra_check"]
         /\ ctx' = [ctx EXCEPT ![t] = "state"]
         /\ ids' = [ids EXCEPT ![t] = res.val]
         /\ idx' = [idx EXCEPT ![t] = 1]
         /\ UNCHANGED <<states, result>>
    ELSE IF res.kind = "Err"
    THEN /\ pc' = [pc EXCEPT ![t] = "login"]
         /\ UNCHANGED <<ctx, ids, idx, states, result>>
    ELSE Return(t, res)

\* get_charger_state 21-28: return the error of get_charger_list, or start the
\* loop over the ids; Ok(states) at once when there is none.
TakeIds(t, res) ==
    IF res.kind = "Ok" /\ res.val # <<>>
    THEN /\ pc' = [pc EXCEPT ![t] = "ra_check"]
         /\ ctx' = [ctx EXCEPT ![t] = "state"]
         /\ ids' = [ids EXCEPT ![t] = res.val]
         /\ idx' = [idx EXCEPT ![t] = 1]
         /\ UNCHANGED <<states, result>>
    ELSE Return(t, res)

\* send().await of the list request: a transport failure or a non-2xx status ends
\* get_charger_list with its error and drops the guard; after a 2xx the task
\* waits for the body, the guard still held.
ListResponse(t, r) ==
    /\ pc[t] = "list_wait"
    /\ IF ~r.transport /\ is_success(r.status)
       THEN /\ Goto(t, "list_text")
            /\ UNCHANGED session_lock
       ELSE /\ session_lock' = 0
            /\ TakeIds(t, ListOutcome(r))
    /\ reply' = [reply EXCEPT ![t] = Reply("list", r, "none")]
    /\ UNCHANGED <<session, now, issued, calls, auth, auth_res, events, branch, saved,
                   authed, sent_ids, fail, refresh_rejected>>
    /\ UNCHANGED cachevars

\* res.text().await and the parse of the body; the guard is dropped at the end of
\* the if-let.
ListText(t, body) ==
    /\ pc[t] = "list_text"
    /\ session_lock' = 0
    /\ TakeIds(t, ParseList(body))
    /\ reply' = [reply EXCEPT ![t].shape = ListShape(body)]
    /\ UNCHANGED <<session, now, issued, calls, auth, auth_res, events, branch, saved,
                   authed, sent_ids, fail, refresh_rejected>>
    /\ UNCHANGED cachevars

\* ---- external_request_charger_state ----
StateSend(t) ==
    /\ pc[t] = "state_send"
    /\ Free
    /\ IF session.token = None
       THEN /\ Return(t, Panicked)
            /\ UNCHANGED <<session_lock, sent_ids>>
       ELSE /\ Goto(t, "state_wait")
            /\ session_lock' = t
            /\ sent_ids' = [sent_ids EXCEPT ![t] = Append(@, ids[t][idx[t]])]
    /\ authed' = [authed EXCEPT ![t] = FALSE]
    /\ UNCHANGED <<session, now, issued, calls, auth, auth_res, events, branch, saved,
                   fail, refresh_rejected, reply>>
    /\ UNCHANGED cachevars

\* What external_request_charger_state returns for the response of the state endpoint.
StateOutcome(charger_id, r) ==
    IF r.transport THEN Err("HttpFailed")
    ELSE IF is_success(r.status) THEN ParseState(charger_id, r.body)
    ELSE IF r.status = TOO_MANY_REQUESTS THEN Err("RateLimit")
    ELSE Err("Unathorized")

\* Mutant of LoopStep: a state is put in front of those fetched before it.
LoopStepReversed(t, res) ==
    IF res.kind # "Ok" THEN Return(t, res)
    ELSE IF idx[t] = Len(ids[t]) THEN Return(t, Ok(<<res.val>> \o states[t]))
    ELSE /\ pc' = [pc EXCEPT ![t] = "ra_check"]
         /\ states' = [states EXCEPT ![t] = <<res.val>> \o @]
         /\ idx' = [idx EXCEPT ![t] = @ + 1]
         /\ UNCHANGED <<ctx, ids, result>>

\* Mutant of LoopStep: an id whose state request failed is skipped.
LoopStepContinue(t, res) ==
    IF idx[t] = Len(ids[t])
    THEN Return(t, Ok(IF res.kind = "Ok" THEN Append(states[t], res.val) ELSE states[t]))
    ELSE /\ pc' = [pc EXCEPT ![t] = "ra_check"]
         /\ states' = [states EXCEPT ![t] = IF res.kind = "Ok" THEN Append(@, res.val) ELSE @]
         /\ idx' = [idx EXCEPT ![t] = @ + 1]
         /\ UNCHANGED <<ctx, ids, result>>

\* Mutant of LoopStep: the ids after the first are requested without refresh_auth.
LoopStepNoAuth(t, res) ==
    IF res.kind # "Ok" THEN Return(t, res)
    ELSE IF idx[t] = Len(ids[t]) THEN Return(t, Ok(Append(states[t], res.val)))
    ELSE /\ pc' = [pc EXCEPT ![t] = "state_send"]
         /\ states' = [states EXCEPT ![t] = Append(@, res.val)]
         /\ idx' = [idx EXCEPT ![t] = @ + 1]
         /\ UNCHANGED <<ctx, ids, result>>

\* Mutant of LoopStep: a state request that failed is made again.
LoopStepRetry(t, res) ==
    IF res.kind = "Panic" THEN Return(t, res)
    ELSE IF res.kind = "Err"
    THEN /\ pc' = [pc EXCEPT ![t] = "ra_check"]
         /\ UNCHANGED <<ctx, ids, idx, states, result>>
    ELSE IF idx[t] = Len(ids[t]) THEN Return(t, Ok(Append(states[t], res.val)))
    ELSE /\ pc' = [pc EXCEPT ![t] = "ra_check"]
         /\ states' = [states EXCEPT ![t] = Append(@, res.val)]
         /\ idx' = [idx EXCEPT ![t] = @ + 1]
         /\ UNCHANGED <<ctx, ids, result>>

\* get_charger_state 30-37: return the first error, else push and go on; Ok(states)
\* after the last id.
LoopStep(t, res) ==
    IF res.kind # "Ok" THEN Return(t, res)
    ELSE IF idx[t] = Len(ids[t]) THEN Return(t, Ok(Append(states[t], res.val)))
    ELSE /\ pc' = [pc EXCEPT ![t] = "ra_check"]
         /\ states' = [states EXCEPT ![t] = Append(@, res.val)]
         /\ idx' = [idx EXCEPT ![t] = @ + 1]
         /\ UNCHANGED <<ctx, ids, result>>

\* send().await of the state request: a transport failure or a non-2xx status ends
\* the call with its error and drops the guard; after a 2xx the task waits for
\* the body, the guard still held.
StateResponse(t, r) ==
    /\ pc[t] = "state_wait"
    /\ IF ~r.transport /\ is_success(r.status)
       THEN /\ Goto(t, "state_text")
            /\ UNCHANGED <<session_lock, fail>>
       ELSE /\ session_lock' = 0
            /\ fail' = [fail EXCEPT ![t] =
                    <<idx[t], StateOutcome(ids[t][idx[t]], r).err, Len(ids[t])>>]
            /\ LoopStep(t, StateOutcome(ids[t][idx[t]], r))
    /\ reply' = [reply EXCEPT ![t] = Reply("state", r, "none")]
    /\ UNCHANGED <<session, now, issued, calls, auth, auth_res, events, branch, saved,
                   authed, sent_ids, refresh_rejected>>
    /\ UNCHANGED cachevars

\* res.text().await and the parse of the body; the guard is dropped at the end of
\* the if-let.
StateText(t, body) ==
    /\ pc[t] = "state_text"
    /\ session_lock' = 0
    /\ fail' = [fail EXCEPT ![t] =
            IF ParseState(ids[t][idx[t]], body).kind = "Ok" THEN @
            ELSE <<idx[t], ParseState(ids[t][idx[t]], body).err, Len(ids[t])>>]
    /\ LoopStep(t, ParseState(ids[t][idx[t]], body))
    /\ reply' = [reply EXCEPT ![t].shape = StateShape(body)]
    /\ UNCHANGED <<session, now, issued, calls, auth, auth_res, events, branch, saved,
                   authed, sent_ids, refresh_rejected>>
    /\ UNCHANGED cachevars

\* ---- time ----
\* The clock goes on, up to limit.
Pass(limit) ==
    /\ now < limit
    /\ now' = now + 1
    /\ UNCHANGED <<session, session_lock, issued, frame, calls, auth, auth_res, history,
                   cachevars>>

Tick == Pass(MaxNow)

Next ==
    \/ Tick
    \/ \E t \in Tasks :
        \/ Call(t) /\ UNCHANGED cachevars
        \/ RefreshAuth(t)
        \/ RefreshAuthReturn(t)
        \/ \E c \in CredentialSources : Login(t, c)
        \/ \E r \in Responses(AuthBodies(issued + 1)) : LoginResponse(t, r)
        \/ \E body \in AuthBodies(issued + 1) : LoginText(t, body)
        \/ LoginWriteToken(t)
        \/ LoginWriteRefreshToken(t)
        \/ LoginWriteLifetime(t)
        \/ RefreshTokenHasRefresh(t)
        \/ RefreshTokenHasToken(t)
        \/ RefreshTokenSend(t)
        \/ \E r \in Responses(AuthBodies(issued + 1)) : RefreshTokenResponse(t, r)
        \/ \E body \in AuthBodies(issued + 1) : RefreshTokenText(t, body)
        \/ RefreshTokenWriteToken(t)
        \/ RefreshTokenWriteRefreshToken(t)
        \/ RefreshTokenWriteLifetime(t)
        \/ ListSend(t)
        \/ \E r \in Responses(ListBodies) : ListResponse(t, r)
        \/ \E body \in ListBodies : ListText(t, body)
        \/ StateSend(t)
        \/ \E r \in Responses(StateBodies(now)) : StateResponse(t, r)
        \/ \E body \in StateBodies(now) : StateText(t, body)

Spec == Init /\ [][Next]_vars

\* ======================= the query surface (src/v1/routes.rs) =======================
\* index and field_index share one Cache: two mutexes, one for the time of the
\* last update and one for the states.  A handler's get_charger_state is the
\* pipeline above, run by the handler's task on the shared session.

MaxRequests == 2

\* chrono::Duration::minutes(1), in model units.
TTL == 1

Fields == {"power", "session", "energy"}
Indexes == 0..(MaxIds - 1)

\* rocket::http::Status
Status_Ok == 200
Status_BadRequest == 400
Status_Unauthorized == 401
Status_TooManyRequests == 429
Status_InternalServerError == 500

\* Response bodies: a fixed text, format!("{}", f64), or Json(Vec<ChargerState>).
Text(x) == [kind |-> x, val |-> <<>>]
Number(x) == [kind |-> "number", val |-> <<x>>]
Json(chargers) == [kind |-> "json", val |-> chargers]

\* The match on the EaseeError, the same arms in index and in field_index.
StatusOf(e) ==
    CASE e = "Unathorized" -> Status_Unauthorized
      [] e = "LoginFailed" -> Status_InternalServerError
      [] e = "HttpFailed" -> Status_InternalServerError
      [] e = "InvalidResponse" -> Status_InternalServerError
      [] e = "RateLimit" -> Status_TooManyRequests

\* match field { Power => charger.power, Session => charger.session,
\*               Energy => charger.energy_per_hour }
FieldOf(charger, field) ==
    CASE field = "power" -> charger.power
      [] field = "session" -> charger.session
      [] field = "energy" -> charger.energy_per_hour

\* chargers.get(index) and the response of field_index for it.
Lookup(chargers, field, index) ==
    IF index < Len(chargers)
    THEN Custom(Status_Ok, Number(FieldOf(chargers[index + 1], field)))
    ELSE Custom(Status_BadRequest, Text("Index out of range"))

\* The variables of the pipeline: what a handler never touches, and what it holds
\* of its call of get_charger_state.
pipeline == <<session, session_lock, now, issued, pc, ctx, calls, auth, auth_res, ids, idx,
              states, events, branch, saved, authed, refresh_rejected>>
called == <<result, sent_ids, fail, reply>>

\* The handlers that are running.
Running == {u \in Tasks : hpc[u] # "none"}

\* What is set when a request is taken, and stays to the next request of the task.
taken == <<route, handled, raced, rid, fetched>>

\* A request for field f and index i (NoReq in GET /) is taken by task t, which
\* runs it in handler r.
Accept(t, r, q) ==
    /\ hpc[t] = "none"
    /\ handled < MaxRequests
    /\ handled' = handled + 1
    /\ rid' = [rid EXCEPT ![t] = handled + 1]
    /\ route' = [route EXCEPT ![t] = r]
    /\ req' = [req EXCEPT ![t] = q]
    /\ raced' = [raced EXCEPT ![t] = Running]
    /\ fetched' = [fetched EXCEPT ![t] = (r = "index")]
    /\ UNCHANGED <<response, cache, written>>

\* The handler of t ends with response r: its guards and locals are dropped.
Respond(t, r) ==
    /\ response' = [r EXCEPT !.by = t]
    /\ hpc' = [hpc EXCEPT ![t] = "none"]
    /\ req' = [req EXCEPT ![t] = NoReq]
    /\ result' = [result EXCEPT ![t] = NoResult]
    /\ sent_ids' = [sent_ids EXCEPT ![t] = <<>>]
    /\ fail' = [fail EXCEPT ![t] = <<>>]
    /\ reply' = [reply EXCEPT ![t] = NoReply]
    /\ cache_lock' = [k \in DOMAIN cache_lock |-> IF cache_lock[k] = t THEN 0 ELSE cache_lock[k]]
    /\ UNCHANGED taken

\* A handler whose get_charger_state panicked: rocket answers 500.
Unwind(t) == Respond(t, Custom(Status_InternalServerError, Text("panic")))

\* Mutant of Stores: the time of the update is written where the states should be.
StoresTimeFirst(t, next) ==
    /\ cache_lock.state = 0
    /\ cache_lock' = [cache_lock EXCEPT !.state = t]
    /\ cache' = [cache EXCEPT !.last_update = Some(now)]
    /\ written' = [written EXCEPT !.last_update = rid[t]]
    /\ hpc' = [hpc EXCEPT ![t] = next]
    /\ UNCHANGED <<called, response, req, taken>>

\* Mutant of Stores: the guard of the states is dropped right after the write.
StoresUnguarded(t, next) ==
    /\ cache_lock.state = 0
    /\ cache' = [cache EXCEPT !.state = Some(result[t].val)]
    /\ written' = [written EXCEPT !.state = rid[t]]
    /\ hpc' = [hpc EXCEPT ![t] = next]
    /\ UNCHANGED <<cache_lock, called, response, req, taken>>

\* The Ok arm, the same in both handlers: cache.state.lock().await and
\* *mtx = Some(chargers.clone()); the guard stays held.
Stores(t, next) ==
    /\ cache_lock.state = 0
    /\ cache_lock' = [cache_lock EXCEPT !.state = t]
    /\ cache' = [cache EXCEPT !.state = Some(result[t].val)]
    /\ written' = [written EXCEPT !.state = rid[t]]
    /\ hpc' = [hpc EXCEPT ![t] = next]
    /\ UNCHANGED <<called, response, req, taken>>

\* Mutant of Fails: a failed fetch evicts the entry.
FailsEvicting(t, body) ==
    /\ IF result[t].kind = "Err"
       THEN Respond(t, Custom(StatusOf(result[t].err), body))
       ELSE Unwind(t)
    /\ cache' = Cache_new
    /\ UNCHANGED written

\* The Err arm, the same in both handlers but for the empty body: the status of
\* the error, and nothing is written.
Fails(t, body) ==
    /\ IF result[t].kind = "Err"
       THEN Respond(t, Custom(StatusOf(result[t].err), body))
       ELSE Unwind(t)
    /\ UNCHANGED <<cache, written>>

\* ---- index ----
\* GET /: up to the await of get_charger_state.
IndexCall(t) ==
    /\ Accept(t, "index", NoReq)
    /\ Start(t)
    /\ hpc' = [hpc EXCEPT ![t] = "index_fetch"]
    /\ UNCHANGED cache_lock

\* The match on what get_charger_state returned.
IndexAfterFetch(t) ==
    /\ hpc[t] = "index_fetch"
    /\ pc[t] = "idle"
    /\ IF result[t].kind = "Ok" THEN Stores(t, "index_w_last") ELSE Fails(t, Json(<<>>))
    /\ UNCHANGED pipeline

\* ---- field_index ----
\* GET /<field>/<index>: the handler is entered and waits for the last_update mutex.
FieldIndexCall(t, f, i) ==
    /\ Accept(t, "field_index", [field |-> f, index |-> i])
    /\ hpc' = [hpc EXCEPT ![t] = "fi_lock"]
    /\ UNCHANGED <<pipeline, called, cache_lock>>

\* Mutant of Refetch: an update as old as the TTL is fetched again.
RefetchAtTTL(last_update, n) ==
    \/ last_update = None
    \/ /\ checked_add_signed(Unwrap(last_update), TTL) # None
       /\ n >= Unwrap(checked_add_signed(Unwrap(last_update), TTL))

\* Whether field_index fetches, for the last_update it finds at time n.
Refetch(last_update, n) ==
    \/ last_update = None
    \/ /\ checked_add_signed(Unwrap(last_update), TTL) # None
       /\ n > Unwrap(checked_add_signed(Unwrap(last_update), TTL))

\* cache.last_update.lock().await: the guard is a local of the handler and lives to
\* its end.  Then the first request or an update older than the TTL calls
\* get_charger_state, and a younger one goes on to the cached states.
FieldIndexEnter(t) ==
    /\ hpc[t] = "fi_lock"
    /\ cache_lock.last_update = 0
    /\ IF Refetch(cache.last_update, now)
       THEN /\ Start(t)
            /\ hpc' = [hpc EXCEPT ![t] = "fi_fetch"]
            /\ cache_lock' = [cache_lock EXCEPT !.last_update = t]
            /\ fetched' = [fetched EXCEPT ![t] = TRUE]
            /\ UNCHANGED <<response, req, route, handled, raced, rid>>
       ELSE IF checked_add_signed(Unwrap(cache.last_update), TTL) = None
       THEN /\ Respond(t, Custom(Status_InternalServerError, Text("")))
            /\ UNCHANGED pipeline
       ELSE /\ hpc' = [hpc EXCEPT ![t] = "fi_read"]
            /\ cache_lock' = [cache_lock EXCEPT !.last_update = t]
            /\ UNCHANGED <<pipeline, called, response, req, taken>>
    /\ UNCHANGED <<cache, written>>

\* The match on what get_charger_state returned, the same in both branches that
\* fetch.
FieldIndexAfterFetch(t) ==
    /\ hpc[t] = "fi_fetch"
    /\ pc[t] = "idle"
    /\ IF result[t].kind = "Ok" THEN Stores(t, "fi_w_last") ELSE Fails(t, Text(""))
    /\ UNCHANGED pipeline

\* The cached states: cache.state.lock().await, then the charger at the index.
FieldIndexRead(t) ==
    /\ hpc[t] = "fi_read"
    /\ cache_lock.state = 0
    /\ Respond(t, IF cache.state = None
                  THEN Custom(Status_BadRequest, Text("No cached data"))
                  ELSE Lookup(Unwrap(cache.state), req[t].field, req[t].index))
    /\ UNCHANGED <<pipeline, cache, written>>

\* ---- both handlers, after the states are stored ----
\* cache.last_update.lock().await, *mtx = Some(Local::now()), and the response:
\* the list in index, the charger at the index in field_index.
WriteLastUpdate(t) ==
    /\ hpc[t] \in {"index_w_last", "fi_w_last"}
    /\ cache_lock.last_update = 0
    /\ cache' = [cache EXCEPT !.last_update = Some(now)]
    /\ written' = [written EXCEPT !.last_update = rid[t]]
    /\ Respond(t, IF route[t] = "index"
                  THEN Custom(Status_Ok, Json(result[t].val))
                  ELSE Lookup(result[t].val, req[t].field, req[t].index))
    /\ UNCHANGED pipeline

\* ---- the upstream while the query surface is looked at ----
\* Tokens outlive the run, the fleet has one charger, and every error of
\* get_charger_state and its panic are among the outcomes.
LongExpiresIn == MaxNow + TTL + 1
GoodAuthBody(n) ==
    [kind |-> "json", accessToken |-> Str(AccessTok(n)),
     refreshToken |-> Str(RefreshTok(n)), expiresIn |-> Num(LongExpiresIn)]
QueryAuthResponses(n) == {[transport |-> FALSE, status |-> 200, body |-> GoodAuthBody(n)]}
QueryListResponses ==
    {r \in Responses(ListBodies) :
        \/ r.transport
        \/ r.status = TOO_MANY_REQUESTS
        \/ r.status = 200 /\ r.body.kind = "object"
        \/ r.status = 200 /\ r.body.kind = "array" /\ ParseList(r.body) = Ok(Fleet(1))}
QueryStateResponses(n) ==
    {r \in Responses(StateBodies(n)) :
        \/ r.status = TOO_MANY_REQUESTS
        \/ r.status = 200 /\ r.body.kind = "text"
        \/ r.status = 200 /\ ParseState(0, r.body).kind = "Ok"}

QueryNext ==
    \/ Pass(MaxNow + TTL)
    \/ \E t \in Tasks :
        \/ IndexCall(t)
        \/ IndexAfterFetch(t)
        \/ \E f \in Fields, i \in Indexes : FieldIndexCall(t, f, i)
        \/ FieldIndexEnter(t)
        \/ FieldIndexAfterFetch(t)
        \/ FieldIndexRead(t)
        \/ WriteLastUpdate(t)
        \/ RefreshAuth(t)
        \/ RefreshAuthReturn(t)
        \/ \E c \in {"file", "none"} : Login(t, c)
        \/ \E r \in QueryAuthResponses(issued + 1) : LoginResponse(t, r)
        \/ \E body \in BodiesOf(QueryAuthResponses(issued + 1)) : LoginText(t, body)
        \/ LoginWriteToken(t)
        \/ LoginWriteRefreshToken(t)
        \/ LoginWriteLifetime(t)
        \/ ListSend(t)
        \/ \E r \in QueryListResponses : ListResponse(t, r)
        \/ \E body \in BodiesOf(QueryListResponses) : ListText(t, body)
        \/ StateSend(t)
        \/ \E r \in QueryStateResponses(now) : StateResponse(t, r)
        \/ \E body \in BodiesOf(QueryStateResponses(now)) : StateText(t, body)

\* What one GET / that is answered at time 0 leaves behind: the session of its
\* login and the states of the one charger, read at 0, with the time of the update.
WarmSession ==
    [token |-> Some(AccessTok(1)), refresh_token |-> Some(RefreshTok(1)),
     lifetime |-> checked_add_signed(0, LongExpiresIn)]
WarmCache ==
    [last_update |-> Some(0),
     state |-> Some(<<[id |-> Fleet(1)[1], power |-> 0, session |-> 10,
                      energy_per_hour |-> 20]>>)]

\* The query surface starts as constructed, or after that first GET /.
QueryInit ==
    /\ \/ session = SessionState_new /\ issued = 0 /\ cache = Cache_new
       \/ session = WarmSession /\ issued = 1 /\ cache = WarmCache
    /\ AtRest

QuerySpec == QueryInit /\ [][QueryNext]_vars

\* ---- scheduling ----
\* The steps of task t that the runtime takes on its own: every step but the
\* arrival of a request and the answer of the upstream, for which no client of
\* the pipeline sets a timeout.
Scheduled(t) ==
    \/ IndexAfterFetch(t)
    \/ FieldIndexEnter(t)
    \/ FieldIndexAfterFetch(t)
    \/ FieldIndexRead(t)
    \/ WriteLastUpdate(t)
    \/ RefreshAuth(t)
    \/ RefreshAuthReturn(t)
    \/ \E c \in {"file", "none"} : Login(t, c)
    \/ LoginWriteToken(t)
    \/ LoginWriteRefreshToken(t)
    \/ LoginWriteLifetime(t)
    \/ ListSend(t)
    \/ StateSend(t)

\* The query surface with a runtime that goes on with a task that can go on.
FairQuerySpec == QuerySpec /\ \A t \in Tasks : WF_vars(Scheduled(t))

\* ======================= the poll driver (src/v1/run.rs) =======================
\* The points tick writes for the states it got: power, energy_per_hour and
\* session of each charger, in this order, the charger's id as the measurement.
Points(state) ==
    [k \in 1..(3 * Len(state)) |->
        LET charger == state[((k - 1) \div 3) + 1]
        IN  CASE (k - 1) % 3 = 0 -> <<"power", charger.power, charger.id>>
              [] (k - 1) % 3 = 1 -> <<"energy_per_hour", charger.energy_per_hour, charger.id>>
              [] (k - 1) % 3 = 2 -> <<"session", charger.session, charger.id>>]

\* tick, for what its get_charger_state gave: the points of an Ok, none for an
\* Err, and a panic of the call unwinds through tick, which does not return.
tick(charger_state) ==
    IF charger_state.kind = "Panic" THEN [returns |-> FALSE, points |-> <<>>]
    ELSE IF charger_state.kind = "Ok"
    THEN [returns |-> TRUE, points |-> Points(charger_state.val)]
    ELSE [returns |-> TRUE, points |-> <<>>]

\* ======================= properties =======================

\* C1: in every state in which the session is at rest (nobody is inside a write of
\* it), the access token is present if and only if the expiry is present.
C1_TokenIffExpiry ==
    Free => (IsSome(session.token) <=> IsSome(session.lifetime))

\* C2: concurrent refresh_auth calls that find no token send one login request
\* between them, and at most one login or refresh request is in flight at a time.
C2_SingleFlightAuth ==
    /\ Cardinality({t \in Tasks : pc[t] \in {"login_wait", "login_text", "rt_wait",
                                              "rt_text"}}) <= 1
    /\ Cardinality({t \in Tasks : branch[t] = "no_token" /\ "login_req" \in events[t]}) <= 1

\* C3 as stated: refresh_auth that finds no token has sent a login request and no
\* refresh request when it returns; that finds the token expired and a refresh
\* token, a refresh request and no login request; that finds the token expired
\* and no refresh token, a login request and no refresh request.
C3_SelectionAsStated ==
    \A t \in Tasks : pc[t] = "ra_ret" =>
        /\ branch[t] \in {"no_token", "expired_no_refresh"} =>
              "login_req" \in events[t] /\ "refresh_req" \notin events[t]
        /\ branch[t] = "expired" =>
              "refresh_req" \in events[t] /\ "login_req" \notin events[t]

\* C3 amended: the operation is selected as stated (no token, or token expired
\* and no refresh token: login and never a refresh request; token expired and a
\* refresh token: a refresh request and never login), and login sends its
\* request unless the credentials cannot be loaded, when it returns LoginFailed
\* with no request sent.
C3_Selection ==
    \A t \in Tasks :
        /\ branch[t] \in {"no_token", "expired_no_refresh"} =>
              /\ "refresh_req" \notin events[t]
              /\ pc[t] = "ra_ret" =>
                    /\ "login" \in events[t]
                    /\ "login_req" \in events[t] \/ auth_res[t] = Err("LoginFailed")
        /\ branch[t] = "expired" =>
              /\ "login" \notin events[t]
              /\ pc[t] = "ra_ret" => "refresh_req" \in events[t]

\* Two refresh_auth calls have returned: one found the token expired and sent a
\* refresh request, the other found no token and sent a login request.
C3_Witness ==
    \E t, u \in Tasks :
        /\ pc[t] = "ra_ret" /\ branch[t] = "expired" /\ "refresh_req" \in events[t]
        /\ pc[u] = "ra_ret" /\ branch[u] = "no_token" /\ "login_req" \in events[u]

\* C4: a refresh_auth call made while a token is held and now < expires_at
\* returns Ok in that step, with no login or refresh started and the session
\* triple unchanged.
C4_ValidTokenNoNetwork ==
    [][\A t \in Tasks :
          (/\ pc[t] = "ra_check" /\ pc'[t] # "ra_check"
           /\ IsSome(session.token) /\ IsSome(session.lifetime)
           /\ now < Unwrap(session.lifetime))
          => (/\ pc'[t] = "ra_ret"
              /\ auth_res'[t] = Ok(<<>>)
              /\ events'[t] = {}
              /\ session' = session)]_vars

\* A refresh_auth call before a state request found the token of an earlier login
\* still valid and has returned.
C4_Witness ==
    \E t \in Tasks :
        /\ pc[t] = "ra_ret" /\ branch[t] = "valid" /\ ctx[t] = "state"
        /\ events[t] = {} /\ auth_res[t] = Ok(<<>>)

\* C5: a login call that returns LoginFailed or InvalidResponse leaves token,
\* refresh token and expiry as they were when it took the session lock (as they
\* are, when it never took it).
C5_FailedLoginLeavesSession ==
    [][\A t \in Tasks :
          (/\ pc[t] \in {"login", "login_wait", "login_text", "login_w_lifetime"}
           /\ pc'[t] = "ra_ret"
           /\ auth_res'[t] \in {Err("LoginFailed"), Err("InvalidResponse")})
          => session' = (IF pc[t] = "login_w_lifetime" THEN Unwrap(saved[t]) ELSE session)]_vars

\* The triple a write in progress ends with, when it ends in success.
WriteEndsOk(w) ==
    /\ pc[w] \in {"login_w_refresh", "login_w_lifetime", "rt_w_refresh", "rt_w_lifetime"}
    /\ ~DurationSecondsPanics(auth[w].duration)
    /\ checked_add_signed(now, auth[w].duration) # None
NewTriple(w) ==
    [token |-> Some(auth[w].token), refresh_token |-> Some(auth[w].refresh_token),
     lifetime |-> checked_add_signed(now, auth[w].duration)]
\* The session is between the previous and the new triple of writer w.
Torn(w) ==
    WriteEndsOk(w) /\ session # Unwrap(saved[w]) /\ session # NewTriple(w)

\* The positions whose step locks the session and reads it.
ReadPcs == {"ra_check", "rt_has_refresh", "rt_has_token", "rt_send", "list_send",
            "state_send"}

\* C6: no task reads the session, through its lock, while a login or refresh of
\* another task that ends in success has written part of the new triple.
C6_NoTornRead ==
    [][\A r \in Tasks :
          (pc[r] \in ReadPcs /\ pc'[r] # pc[r])
          => \A w \in Tasks \ {r} : ~Torn(w)]_vars

\* A successful write is half done while another task is about to read the session.
C6_Witness ==
    \E w, r \in Tasks : w # r /\ Torn(w) /\ pc[r] \in ReadPcs

\* C7: a refresh_auth call whose refresh request got a non-2xx response has gone
\* on to login when it returns.
C7_RejectedRefreshFallsBackToLogin ==
    \A t \in Tasks :
        (pc[t] = "ra_ret" /\ "refresh_non2xx" \in events[t]) => "login" \in events[t]

\* C8: a refresh that gets a non-2xx returns LoginFailed, and a refresh_auth call
\* that then finds the session still expired goes to login.
C8_LoginAfterRejectedRefresh ==
    \A t \in Tasks : pc[t] = "ra_ret" =>
        /\ "refresh_non2xx" \in events[t] => auth_res[t] = Err("LoginFailed")
        /\ "after_rejected" \in events[t] => "login" \in events[t]

\* C9: a list or state request is sent only by a task whose refresh_auth has just
\* returned Ok, with no other request of the task in between; and when
\* refresh_auth returns an error, get_charger_state returns that error and sends
\* nothing.
C9_AuthBeforeRequest ==
    [][\A t \in Tasks :
          /\ (pc'[t] \in {"list_wait", "state_wait"} /\ pc'[t] # pc[t]) => authed[t]
          /\ (pc[t] = "ra_ret" /\ auth_res[t].kind = "Err" /\ pc'[t] # "ra_ret")
             => (/\ pc'[t] = "idle"
                 /\ result'[t] = auth_res[t]
                 /\ sent_ids'[t] = sent_ids[t])]_vars

\* The state request for the second id is in flight.
C9_Witness ==
    \E t \in Tasks : pc[t] = "state_wait" /\ idx[t] = 2 /\ Len(sent_ids[t]) = 2

\* C10: when the k-th state request has failed with e, get_charger_state has
\* returned Err(e), which carries no list, and k state requests were sent.
C10_FailFast ==
    \A t \in Tasks : fail[t] # <<>> =>
        /\ pc[t] = "idle"
        /\ result[t] = Err(fail[t][2])
        /\ Len(sent_ids[t]) = fail[t][1]

\* The first of two state requests failed, and the second after a first that succeeded.
C10_Witness ==
    \E t, u \in Tasks :
        /\ fail[t] # <<>> /\ fail[t][1] = 1 /\ fail[t][3] = 2
        /\ fail[u] # <<>> /\ fail[u][1] = 2

\* C11: when get_charger_state returns Ok, the list it returns has one state per
\* id of the listing, in the order of the listing, each with the id it was
\* fetched for; the state requests were sent for these ids in this order, and
\* none was sent before the list request was answered.
C11_ListingOrder ==
    [][\A t \in Tasks :
          /\ pc[t] \in {"list_send", "list_wait", "list_text"} => sent_ids[t] = <<>>
          /\ (pc[t] # "idle" /\ pc'[t] = "idle" /\ result'[t].kind = "Ok")
             => (/\ pc[t] \in {"list_text", "state_text"}
                 /\ Len(result'[t].val) = Len(ids[t])
                 /\ \A i \in 1..Len(ids[t]) : result'[t].val[i].id = ids[t][i]
                 /\ sent_ids[t] = ids[t])]_vars

\* A call has returned the states of a listing of two chargers, listed 2 before 1.
C11_Witness ==
    \E t \in Tasks :
        /\ pc[t] = "idle" /\ result[t].kind = "Ok" /\ Len(result[t].val) = 2
        /\ result[t].val[1].id = 2 /\ result[t].val[2].id = 1
        /\ sent_ids[t] = <<2, 1>>

\* C12: a call whose list request or state request was answered with 429 has
\* returned RateLimit.
C12_RateLimited ==
    \A t \in Tasks :
        (/\ pc[t] = "idle" /\ reply[t].stage \in {"list", "state"}
         /\ reply[t].status = TOO_MANY_REQUESTS)
        => result[t] = Err("RateLimit")

\* C13: a call whose list request or state request was answered with a non-2xx
\* status other than 429 has returned Unathorized.
C13_Unauthorized ==
    \A t \in Tasks :
        (/\ pc[t] = "idle" /\ reply[t].stage \in {"list", "state"}
         /\ reply[t].status # 0 /\ ~is_success(reply[t].status)
         /\ reply[t].status # TOO_MANY_REQUESTS)
        => result[t] = Err("Unathorized")

\* C14: a call that ended after a 2xx response of any endpoint has not panicked,
\* and has returned InvalidResponse when the body was not JSON, JSON of another
\* container type, or had a field absent or of the wrong type.
C14_InvalidResponseNoPanic ==
    \A t \in Tasks :
        (pc[t] = "idle" /\ reply[t].stage # "none" /\ is_success(reply[t].status))
        => /\ result[t] # Panicked
           /\ reply[t].shape \in {"not_json", "not_container", "bad_field"}
              => result[t] = Err("InvalidResponse")

\* The step in which field_index, holding the last_update mutex, decides between
\* the cached states and a fetch.
Decides(t) == hpc[t] = "fi_lock" /\ hpc'[t] # "fi_lock"

\* What field_index does when the entry counts as fresh, and when it does not:
\* fresh, it goes on to the cached states without a call of get_charger_state and
\* answers from them; else it calls get_charger_state once, in this step, and
\* not again.
ServesOrFetches(t, fresh) ==
    /\ Decides(t) /\ fresh => hpc'[t] = "fi_read" /\ calls'[t] = calls[t]
    /\ Decides(t) /\ ~fresh =>
          hpc'[t] = "fi_fetch" /\ pc'[t] = "ra_check" /\ calls'[t] = calls[t] + 1
    /\ hpc[t] \in {"fi_read", "fi_fetch", "fi_w_last"} => calls'[t] = calls[t]
    /\ (hpc[t] = "fi_read" /\ hpc'[t] = "none") =>
          /\ cache.state # None
          /\ response' = [Lookup(Unwrap(cache.state), req[t].field, req[t].index)
                            EXCEPT !.by = t]

\* C15 as stated: the entry is fresh while now - fetched_at < ttl, and at
\* now - fetched_at = ttl the read fetches.
C15_FreshBelowTTL ==
    [][\A t \in Tasks :
          ServesOrFetches(t, /\ cache.last_update # None
                             /\ now - Unwrap(cache.last_update) < TTL)]_vars

\* C15 amended: a cached read is served from the cache with no upstream call if
\* and only if an entry exists and now - fetched_at <= ttl; with no entry, or
\* with now - fetched_at > ttl, it calls get_charger_state exactly once.
C15_FreshUpToTTL ==
    [][\A t \in Tasks :
          ServesOrFetches(t, /\ cache.last_update # None
                             /\ now - Unwrap(cache.last_update) <= TTL)]_vars

\* One field_index was answered from the cache without any fetch, and another
\* has found the entry too old and is fetching.
C15_Witness ==
    \E t, u \in Tasks :
        /\ route[u] = "field_index" /\ response.by = u /\ response.status = Status_Ok
        /\ calls[u] = 0
        /\ hpc[t] = "fi_fetch" /\ calls[t] = 1 /\ cache.last_update # None
        /\ now - Unwrap(cache.last_update) > TTL

\* The field_index handler that t runs, or ran last, has called get_charger_state.
HasFetched(t) == route[t] = "field_index" /\ fetched[t]

\* C16: of the field_index handlers that run at the same time and miss the
\* cache, one calls get_charger_state and the others do not.
C16_SingleFlight ==
    \A t, u \in Tasks :
        (t # u /\ (u \in raced[t] \/ t \in raced[u]))
        => ~(HasFetched(t) /\ HasFetched(u))

\* The step in which the handler of t takes up what its get_charger_state returned.
AfterFetch(t) ==
    hpc[t] \in {"index_fetch", "fi_fetch"} /\ pc[t] = "idle" /\ hpc'[t] # hpc[t]

\* C17: when the fetch of a handler has failed, the handler leaves both cache
\* fields as they are and answers with an error status and no states; and the
\* cache is written only by a handler whose fetch returned Ok.
C17_StaleEntryKept ==
    [][/\ \A t \in Tasks :
             (AfterFetch(t) /\ result[t].kind = "Err")
             => /\ cache' = cache
                /\ response'.by = t
                /\ response'.status \in {Status_Unauthorized, Status_TooManyRequests,
                                         Status_InternalServerError}
                /\ response'.body.val = <<>>
       /\ cache' # cache =>
             \E t \in Tasks :
                /\ result[t].kind = "Ok"
                /\ hpc[t] \in {"index_fetch", "fi_fetch", "index_w_last", "fi_w_last"}]_vars

\* A field_index found the entry of the first GET / too old, its fetch failed with
\* Unathorized, it answered 401 and the entry is still there.
C17_Witness ==
    \E t \in Tasks :
        /\ route[t] = "field_index" /\ hpc[t] = "none" /\ calls[t] = 1
        /\ response.by = t /\ response.status = Status_Unauthorized
        /\ cache = WarmCache /\ now > TTL

\* C18: a field_index that answers from the cache reads states that are there,
\* and they and the time of the update it read before them were written by the
\* same request.
C18_PairOfOneRefresh ==
    [][\A t \in Tasks :
          (hpc[t] = "fi_read" /\ hpc'[t] = "none")
          => /\ cache.state # None
             /\ written.state = written.last_update]_vars

\* A field_index that arrived while an index was running, and is now about to
\* read the states of the entry that index has written in full.
C18_Witness ==
    \E t, u \in Tasks :
        /\ hpc[t] = "fi_read"
        /\ cache_lock.state = 0
        /\ u \in raced[t]
        /\ route[u] = "index"
        /\ hpc[u] = "none"
        /\ rid[u] > 0
        /\ written = [last_update |-> rid[u], state |-> rid[u]]

\* The list the field_index of t looks its index up in, once it has one.
HasList(t) ==
    \/ hpc[t] = "fi_read" /\ cache.state # None
    \/ hpc[t] = "fi_fetch" /\ pc[t] = "idle" /\ result[t].kind = "Ok"
    \/ hpc[t] = "fi_w_last"
ListOf(t) == IF hpc[t] = "fi_read" THEN Unwrap(cache.state) ELSE result[t].val

\* C19: a field_index whose index is not below the length of the list changes
\* neither cache field from then on, and the response it ends with is 400.
C19_IndexBound ==
    [][\A t \in Tasks :
          (HasList(t) /\ req[t].index >= Len(ListOf(t)) /\ hpc'[t] # hpc[t])
          => /\ cache' = cache
             /\ hpc'[t] = "none" =>
                   response'.by = t /\ response'.status = Status_BadRequest]_vars

\* C20: every outcome of a handler's fetch gets its status, in index and in
\* field_index alike: a fetch that returned an error is answered in the next step
\* of the handler, 401 for Unathorized, 429 for RateLimit and 500 for LoginFailed,
\* HttpFailed and InvalidResponse; and a fetch that returned Ok (in field_index,
\* with the index in the list) is answered 200.
C20_StatusMapping ==
    /\ [][\A t \in Tasks :
             /\ (AfterFetch(t) /\ result[t].kind = "Err")
                => /\ response'.by = t /\ hpc'[t] = "none"
                   /\ result[t].err = "Unathorized" => response'.status = 401
                   /\ result[t].err = "RateLimit" => response'.status = 429
                   /\ result[t].err \in {"LoginFailed", "HttpFailed", "InvalidResponse"}
                      => response'.status = 500
             /\ (hpc[t] \in {"index_w_last", "fi_w_last"} /\ hpc'[t] = "none"
                 /\ (route[t] = "field_index" => req[t].index < Len(result[t].val)))
                => response'.by = t /\ response'.status = 200]_vars
    /\ \A t \in Tasks :
          (/\ hpc[t] \in {"index_fetch", "fi_fetch"} /\ pc[t] = "idle"
           /\ result[t].kind = "Ok"
           /\ route[t] = "field_index" => req[t].index < Len(result[t].val))
          ~> (hpc[t] = "none" /\ response.by = t /\ response.status = 200)

\* C21: a call whose list or state request is answered with 429 returns an error
\* in that step, with the session as it was and no token issued, and so without
\* a login or refresh request after it; and a refresh_auth made on a token that
\* is still valid, when the last answer of the query surface was the 429 of such
\* a call, returns Ok in its step with no login started and the session unchanged.
C21_RateLimitNoLogin ==
    [][\A t \in Tasks :
          /\ (/\ pc[t] \in {"list_wait", "state_wait"} /\ pc'[t] # pc[t]
              /\ reply'[t].status = TOO_MANY_REQUESTS)
             => (/\ pc'[t] = "idle"
                 /\ result'[t].kind = "Err"
                 /\ session' = session
                 /\ issued' = issued
                 /\ events'[t] = events[t])
          /\ (/\ pc[t] = "ra_check" /\ pc'[t] # "ra_check"
              /\ response.by # 0 /\ response.status = Status_TooManyRequests
              /\ TokenValid(session, now))
             => (/\ pc'[t] = "ra_ret"
                 /\ auth_res'[t] = Ok(<<>>)
                 /\ "login" \notin events'[t]
                 /\ session' = session)]_vars

\* A task whose handler answered 429 after a rate-limited state request runs its
\* next handler, and the refresh_auth of that one found the token valid and
\* returned Ok with no login.
C21_Witness ==
    \E t \in Tasks :
        /\ response.by = t /\ response.status = Status_TooManyRequests
        /\ hpc[t] # "none" /\ calls[t] = 2
        /\ pc[t] = "ra_ret" /\ branch[t] = "valid"
        /\ auth_res[t] = Ok(<<>>) /\ events[t] = {}

\* The positions in which a request of the task is in flight.
InFlight == {"login_wait", "login_text", "rt_wait", "rt_text", "list_wait", "list_text",
             "state_wait", "state_text"}

\* C22: a task whose upstream request is in flight holds neither the session
\* mutex nor a cache mutex.
C22_NoLockAcrossNetwork ==
    \A t \in Tasks :
        pc[t] \in InFlight
        => session_lock # t /\ cache_lock.last_update # t /\ cache_lock.state # t

\* The elements of a sequence.
Range(q) == {q[i] : i \in DOMAIN q}

\* C23: within one call nothing is sent twice.  A login or refresh request that
\* fails ends refresh_auth with the error, and the call returns it; a list or
\* state request is followed by the return of the call or, when it succeeded, by
\* the next id; the list request is sent before any id is known, a state request
\* for an id no state request was sent for, and a login or refresh request by a
\* refresh_auth that has sent none.
C23_NoRetry ==
    [][\A t \in Tasks :
          /\ (/\ pc[t] \in {"login_wait", "login_text", "rt_wait", "rt_text"}
              /\ pc'[t] # pc[t]
              /\ pc'[t] \notin {"login_text", "rt_text", "login_w_token", "rt_w_token"})
             => pc'[t] = "ra_ret" /\ auth_res'[t].kind = "Err"
          /\ (pc[t] = "ra_ret" /\ auth_res[t].kind = "Err" /\ pc'[t] # "ra_ret")
             => pc'[t] = "idle" /\ result'[t] = auth_res[t]
          /\ (pc[t] = "list_wait" /\ pc'[t] # pc[t]) => pc'[t] \in {"idle", "list_text"}
          /\ (pc[t] = "state_wait" /\ pc'[t] # pc[t]) => pc'[t] \in {"idle", "state_text"}
          /\ (pc[t] = "list_text" /\ pc'[t] # pc[t])
             => \/ pc'[t] = "idle"
                \/ pc'[t] = "ra_check" /\ ctx'[t] = "state" /\ ids'[t] # <<>>
          /\ (pc[t] = "state_text" /\ pc'[t] # pc[t])
             => \/ pc'[t] = "idle"
                \/ /\ pc'[t] = "ra_check" /\ idx'[t] = idx[t] + 1
                   /\ Len(states'[t]) = Len(states[t]) + 1
          /\ (pc'[t] = "list_wait" /\ pc[t] # "list_wait")
             => ctx[t] = "list" /\ ids[t] = <<>> /\ sent_ids[t] = <<>>
          /\ (pc'[t] = "state_wait" /\ pc[t] # "state_wait")
             => /\ ids[t][idx[t]] \notin Range(sent_ids[t])
                /\ sent_ids'[t] = Append(sent_ids[t], ids[t][idx[t]])
          /\ (pc'[t] \in {"login_wait", "rt_wait"} /\ pc'[t] # pc[t])
             => "login_req" \notin events[t] /\ "refresh_req" \notin events[t]]_vars

\* A call has returned the error of the state request for the second of two ids,
\* having sent one state request for each.
C23_Witness ==
    \E t \in Tasks :
        /\ pc[t] = "idle" /\ result[t].kind = "Err"
        /\ fail[t] # <<>> /\ fail[t][1] = 2
        /\ sent_ids[t] = <<2, 1>>

\* C24: whatever the get_charger_state of a tick has ended with, the tick
\* returns, and with no point written when it was an error.
C24_TickReturns ==
    \A t \in Tasks :
        (pc[t] = "idle" /\ calls[t] > 0)
        => /\ tick(result[t]).returns
           /\ result[t].kind = "Err" => tick(result[t]).points = <<>>

\* C25: every request that is in flight is answered or given up, so that the
\* task goes on.
C25_UpstreamCallResolves ==
    \A t \in Tasks : (pc[t] \in InFlight) ~> (pc[t] \notin InFlight)

\* C26: no token has been issued while the session is as constructed, with its
\* three fields absent; and the session changes only in a step of the write of
\* login or of refresh_token, made by the task that holds the session mutex for
\* it (or takes it in that step).
C26_SessionFrame ==
    /\ [](issued = 0 => session = SessionState_new)
    /\ [][session' # session =>
            \E t \in Tasks :
               /\ pc[t] \in {"login_w_token", "login_w_refresh", "login_w_lifetime",
                              "rt_w_token", "rt_w_refresh", "rt_w_lifetime"}
               /\ pc'[t] # pc[t]
               /\ session_lock = t \/ session_lock' = t]_vars

\* The session holds the triple of a login while a call that began with it has
\* had its list request and a state request answered.
C26_Witness ==
    \E t \in Tasks :
        /\ session.token = Some(AccessTok(1)) /\ session.lifetime # None
        /\ pc[t] = "ra_check" /\ ctx[t] = "state" /\ idx[t] = 2
        /\ reply[t].stage = "state"

\* C27: a field_index whose get_charger_state has returned Ok ends with a response.
C27_FetchingFieldIndexAnswers ==
    \A t \in Tasks :
        (hpc[t] = "fi_fetch" /\ pc[t] = "idle" /\ result[t].kind = "Ok")
        ~> (hpc[t] = "none")

\* C28: no handler holds the mutex of the states and waits for that of the time
\* of the update while another holds the latter and waits for the former.
C28_NoLockCycle ==
    \A t, u \in Tasks :
        ~(/\ cache_lock.state = t /\ hpc[t] \in {"index_w_last", "fi_w_last"}
          /\ cache_lock.last_update = u /\ hpc[u] = "fi_read"
          /\ t # u)

\* C29: no task reads the two tokens into the payload of a refresh request and
\* sends it while another task has the response of its own refresh request, with
\* the new tokens, and has not yet written them.
C29_RefreshTokenSentOnce ==
    [][\A u \in Tasks :
          (pc[u] = "rt_send" /\ pc'[u] = "rt_wait")
          => \A t \in Tasks \ {u} : pc[t] \notin {"rt_text", "rt_w_token"}]_vars

\* C30: a token the session holds is never taken away, and whenever a task is
\* about to send its list or state request, its refresh_auth having returned Ok,
\* the session holds a token, so that no call ends in the unreachable!() branch.
C30_TokenStays ==
    /\ [][session.token # None => session'.token # None]_vars
    /\ [](\A t \in Tasks : pc[t] \in {"list_send", "state_send"} => session.token # None)
    /\ [][\A t \in Tasks :
             (pc[t] \in {"list_send", "state_send"} /\ pc'[t] # pc[t])
             => pc'[t] \in {"list_wait", "state_wait"}]_vars

\* A task is about to send its list request while another task, which found the
\* token expired, is in the middle of writing the tokens of its refresh.
C30_Witness ==
    \E t, u \in Tasks :
        /\ t # u
        /\ pc[t] = "list_send"
        /\ pc[u] = "rt_w_refresh" /\ session_lock = u

\* C31: whenever the cache holds the time of an update it holds states, and no
\* field_index answers "No cached data".
C31_ValueBeforeTimestamp ==
    /\ cache.last_update # None => cache.state # None
    /\ response.body # Text("No cached data")

\* A field_index holds the guard of the time of an update that a handler of this
\* run has written, and is about to read the states.
C31_Witness ==
    \E t \in Tasks :
        /\ hpc[t] = "fi_read" /\ cache_lock.last_update = t
        /\ cache.last_update # None
        /\ written.last_update > 0 /\ written.state > 0

\* The time at which the upstream was read for a list of states: the reading of
\* its first charger.
ReadAt(chargers) == chargers[1].power

\* C32: the states in the cache are never replaced by states that were read from
\* the upstream earlier than they.
C32_NoRollback ==
    [][(/\ cache.state # None /\ cache'.state # None
        /\ Unwrap(cache.state) # <<>> /\ Unwrap(cache'.state) # <<>>)
       => ReadAt(Unwrap(cache'.state)) >= ReadAt(Unwrap(cache.state))]_vars
====
